---------------------------- MODULE Spec2Model ----------------------------
(***************************************************************************)
(* A model of the run orchestration of mlrun/runtimes/base.py:             *)
(*   selector            - election of the best iteration of a sweep       *)
(*   RunRuntime._post_run, _run_many, _results_to_iter, run                *)
(*   RunRuntime.build_image, _build_image                                  *)
(*                                                                         *)
(* Python values are modelled as follows.                                  *)
(*   - a str is a sequence of one-character strings ("max.a" is            *)
(*     <<"m","a","x",".","a">>), so that find and slicing are computed;    *)
(*   - an optional str argument is [isNone, str];                          *)
(*   - an output value is [has, v]: has = FALSE is None / key missing;     *)
(*   - a run dict is [uid, project, iteration, state, error, outputs];     *)
(*     error "None" is Python's None (key missing), an optional dict is    *)
(*     <<>> (None) or <<d>>;                                               *)
(*   - best_val is [kind, v], kind "float_min" / "float_max" for the two   *)
(*     sys.float_info constants, "num" for an output value.                *)
(***************************************************************************)
EXTENDS Integers, Sequences, FiniteSets, TLC

VARIABLES
    \* ---- selector called on a results list (SelSpec)
    selPc,        \* "call" before the call of selector, "done" after it
    selResults,   \* the results argument
    selCriteria,  \* the criteria argument
    selOut,       \* the returned pair [item, id]
    selTask       \* _results_to_iter's task: <<>> is None, <<t>> is results[item]

VARIABLES
    \* ---- _post_run applied to a payload, then to its own result (NormSpec)
    normPc,       \* "in", "once" after the first application, "twice" after the second
    normResp,     \* the resp argument: <<>> is None
    normTask,     \* the task argument
    normErr,      \* the err argument: "None" or the raised RunError
    normHasDb,    \* self._db_conn is set
    normDb,       \* the run store before the first application
    normFirst,    \* the first application: [resp, db, log]
    normSecond    \* the second application: [resp, db, log]

VARIABLES
    \* ---- one call of run() (Spec)
    pc,           \* where run() stands
    kind,         \* "single": no task generator; "batch": hyperparams or param_file
    runHasDb,     \* self._db_conn is set
    nTasks,       \* how many tasks the generator yields
    runSelector,  \* runspec.spec.selector
    runspec,      \* the run object handed to run()
    taskNo,       \* the number of the generated task in hand, 0 for a standalone run
    theTask,      \* the task in hand: <<>> or <<t>>
    theResp,      \* what _run returned for it: <<>> is None
    raised,       \* the RunError _run raised for it, "None" when it returned
    runDb,        \* the run store
    dbLog,        \* the calls made to the run store, in order
    runResults,   \* the RunList
    hist,         \* what the backend did for each task, in order
    execution,    \* the state and error of the MLClientCtx of the parent run
    elected,      \* log_iteration_results(id, summary, task): [id, task]
    result,       \* run()'s result variable: <<>> is None
    outcome       \* how run() ended: "none" while running, "returned", "raised"

VARIABLES
    \* ---- the build gate of one runtime object (GateSpec)
    runtime,      \* _is_built and the spec and build fields the gate reads
    builder,      \* the calls the builder has received
    gateCalls,    \* how many calls of build_image and _build_image were made
    gateRet,      \* how the last call of _build_image ended
    gateErr,      \* the message of the RunError the last call raised, or "None"
    gateEntry     \* the runtime and the builder's calls on entry to that call

selVars == <<selPc, selResults, selCriteria, selOut, selTask>>

normVars == <<normPc, normResp, normTask, normErr, normHasDb, normDb, normFirst, normSecond>>

runVars == <<pc, kind, runHasDb, nTasks, runSelector, runspec, taskNo, theTask, theResp, raised, runDb,
             dbLog, runResults, hist, execution, elected, result, outcome>>

gateVars == <<runtime, builder, gateCalls, gateRet, gateErr, gateEntry>>

vars == <<selVars, normVars, runVars, gateVars>>

-----------------------------------------------------------------------------
(* Bounds *)

\* the longest results list handed to selector
MaxSel == 3

\* the most tasks a generator yields in one sweep
MaxTasks == 3

\* the most calls of build_image and _build_image on one runtime object
MaxGateCalls == 3

-----------------------------------------------------------------------------
(* Python values *)

NoneStr == [isNone |-> TRUE, str |-> <<>>]

Str(s) == [isNone |-> FALSE, str |-> s]

\* Python truthiness of an optional str: None and '' are falsy
truthy_str(c) == ~c.isNone /\ c.str # <<>>

NoVal == [has |-> FALSE, v |-> 0]

Num(n) == [has |-> TRUE, v |-> n]

\* the output field names the runs report
OutFields == {<<"a">>}

\* the values an output field takes
OutVals == {-1, 0, 1, 2}

\* the uid and project of the run
Uid == <<"u">>

Project == "p"

RunDict(uid, it, state, error, outputs) ==
    [uid |-> uid, project |-> Project, iteration |-> it, state |-> state,
     error |-> error, outputs |-> outputs]

\* Python truthiness of an error value: None and '' are falsy, an exception
\* object and a non-empty message are truthy
truthy_err(e) == e \notin {"None", ""}

\* utils.get_in(task, ['status', 'outputs', key]): None when the key is missing
get_output(task, key) ==
    IF key \in DOMAIN task.outputs THEN task.outputs[key] ELSE NoVal

-----------------------------------------------------------------------------
(* selector *)

\* str.find: the 0-based index of the first occurrence, -1 when there is none
find(s, ch) ==
    IF \E k \in 1..Len(s) : s[k] = ch
    THEN (CHOOSE k \in 1..Len(s) : s[k] = ch /\ \A j \in 1..(k - 1) : s[j] # ch) - 1
    ELSE -1

OpMax == <<"m", "a", "x">>

OpMin == <<"m", "i", "n">>

\* the split of the criteria string into op and output field
parse_criteria(criteria) ==
    LET idx == find(criteria, ".")
    IN  IF idx < 0
        THEN [op |-> OpMax, field |-> criteria]
        ELSE [op |-> SubSeq(criteria, 1, idx),
              field |-> SubSeq(criteria, idx + 2, Len(criteria))]

\* best_val before the scan; supported = FALSE is the 'unsupported selector' return
initial_best(op) ==
    IF op = OpMax THEN [supported |-> TRUE, val |-> [kind |-> "float_min", v |-> 0]]
    ELSE IF op = OpMin THEN [supported |-> TRUE, val |-> [kind |-> "float_max", v |-> 0]]
    ELSE [supported |-> FALSE, val |-> [kind |-> "num", v |-> 0]]

\* val > best_val. sys.float_info.min is the smallest positive normalized float
\* (2.2e-308): an integer is greater than it exactly when it is positive.
\* sys.float_info.max (1.8e308) is above every output value.
py_gt(val, best) ==
    CASE best.kind = "float_min" -> val > 0
      [] best.kind = "float_max" -> FALSE
      [] OTHER -> val > best.v

\* val < best_val
py_lt(val, best) ==
    CASE best.kind = "float_min" -> val <= 0
      [] best.kind = "float_max" -> TRUE
      [] OTHER -> val < best.v

is_candidate_any_state(state, val) == val.has

\* the guard of the scan: the task did not fail and reports the field
is_candidate(state, val) == state # "error" /\ val.has

\* the comparison with the running best
improves(op, val, best) ==
    \/ op = OpMax /\ py_gt(val, best)
    \/ op = OpMin /\ py_lt(val, best)

\* the scan loop from position i (1-based here, best.item is Python's 0-based i)
RECURSIVE scan(_, _, _, _, _)
scan(results, op, field, i, best) ==
    IF i > Len(results) THEN best
    ELSE LET task == results[i]
             state == task.state
             id == task.iteration
             val == get_output(task, field)
         IN  IF is_candidate(state, val) /\ improves(op, val.v, best.val)
             THEN scan(results, op, field, i + 1,
                       [id |-> id, item |-> i - 1, val |-> [kind |-> "num", v |-> val.v]])
             ELSE scan(results, op, field, i + 1, best)

\* selector returning the index before the one of the elected task
selector_item_off_by_one(results, criteria) ==
    IF ~truthy_str(criteria) THEN [item |-> 0, id |-> 0]
    ELSE LET p == parse_criteria(criteria.str)
             init == initial_best(p.op)
         IN  IF ~init.supported THEN [item |-> 0, id |-> 0]
             ELSE LET b == scan(results, p.op, p.field, 1,
                                [id |-> 0, item |-> 0, val |-> init.val])
                  IN  [item |-> IF b.item > 0 THEN b.item - 1 ELSE 0, id |-> b.id]

selector_unsupported_as_max(results, criteria) ==
    IF ~truthy_str(criteria) THEN [item |-> 0, id |-> 0]
    ELSE LET p == parse_criteria(criteria.str)
             op == IF initial_best(p.op).supported THEN p.op ELSE OpMax
             b == scan(results, op, p.field, 1,
                       [id |-> 0, item |-> 0, val |-> initial_best(op).val])
         IN  [item |-> b.item, id |-> b.id]

\* selector(results, criteria): the pair (best_item, best_id)
selector(results, criteria) ==
    IF ~truthy_str(criteria) THEN [item |-> 0, id |-> 0]
    ELSE LET p == parse_criteria(criteria.str)
             init == initial_best(p.op)
         IN  IF ~init.supported THEN [item |-> 0, id |-> 0]
             ELSE LET b == scan(results, p.op, p.field, 1,
                                [id |-> 0, item |-> 0, val |-> init.val])
                  IN  [item |-> b.item, id |-> b.id]

\* _results_to_iter: task = results[item] if id and results else None
elected_task(results, sel) ==
    IF sel.id # 0 /\ Len(results) > 0 THEN <<results[sel.item + 1]>> ELSE <<>>

-----------------------------------------------------------------------------
(* The run store (RunDB): a function from (uid, project) keys to run dicts *)

EmptyDb == [k \in {} |-> 0]

\* RunDB.store_run(struct, uid, project): writes the whole run
db_store_run(db, struct, uid, project) ==
    (<<uid, project>> :> struct) @@ db

\* RunDB.update_run(updates, uid, project): sets the given status fields of the
\* stored run, leaving the others
db_update_run(db, updates, uid, project) ==
    IF <<uid, project>> \in DOMAIN db
    THEN [db EXCEPT ![<<uid, project>>] =
            [@ EXCEPT !.state = updates.state,
                      !.error = IF updates.error # "None" THEN updates.error ELSE @]]
    ELSE db

\* RunDB.read_run(uid, project): the stored run
db_read_run(db, uid, project) ==
    IF <<uid, project>> \in DOMAIN db THEN <<db[<<uid, project>>]>> ELSE <<>>

-----------------------------------------------------------------------------
(* store_run, _get_db_run, _post_run *)

\* the key of a run without its iteration
run_uid_no_iter(uid, iter) == uid

\* uid = '{}-{}'.format(uid, iter) if iter else uid
run_uid(uid, iter) ==
    IF iter # 0 THEN uid \o <<"-", ToString(iter)>> ELSE uid

LogEntry(op, uid, project, state, error) ==
    [op |-> op, key |-> <<uid, project>>, state |-> state, error |-> error]

\* store_run that never reaches the store
store_run_skipped(runobj, hasDb, db) ==
    [db |-> db, log |-> <<>>]

\* store_run(runobj): [db, log]
store_run(runobj, hasDb, db) ==
    IF hasDb /\ runobj # <<>>
    THEN LET r == runobj[1]
             uid == run_uid(r.uid, r.iteration)
         IN  [db |-> db_store_run(db, r, uid, r.project),
              log |-> <<LogEntry("store", uid, r.project, r.state, r.error)>>]
    ELSE [db |-> db, log |-> <<>>]

\* _get_db_run(task): [resp, log]
_get_db_run(task, hasDb, db) ==
    IF hasDb /\ task # <<>>
    THEN LET t == task[1]
             uid == run_uid(t.uid, t.iteration)
         IN  [resp |-> db_read_run(db, uid, t.project),
              log |-> <<LogEntry("read", uid, t.project, "", "None")>>]
    ELSE [resp |-> task, log |-> <<>>]

_post_run_resp_not_set(resp, task, err, hasDb, db) ==
    LET got == IF resp = <<>> /\ task # <<>>
               THEN _get_db_run(task, hasDb, db)
               ELSE [resp |-> resp, log |-> <<>>]
    IN  IF got.resp = <<>> THEN [resp |-> <<>>, db |-> db, log |-> got.log]
        ELSE LET r == got.resp[1]
                 ok == r.state # "error" /\ ~truthy_err(err)
                 r1 == IF ok THEN [r EXCEPT !.state = "completed"]
                       ELSE [r EXCEPT !.error = IF truthy_err(err) THEN err ELSE @]
                 updates == IF ok THEN [state |-> "completed", error |-> "None"]
                            ELSE [state |-> "error",
                                  error |-> IF truthy_err(r1.error) THEN r1.error ELSE "None"]
                 uid == run_uid(r1.uid, r1.iteration)
             IN  IF hasDb
                 THEN [resp |-> <<r1>>,
                       db |-> db_update_run(db, updates, uid, r1.project),
                       log |-> got.log \o <<LogEntry("update", uid, r1.project,
                                                     updates.state, updates.error)>>]
                 ELSE [resp |-> <<r1>>, db |-> db, log |-> got.log]

\* _post_run(resp, task, err): [resp, db, log]. resp is the returned dict (the
\* argument updated in place), db the store after update_run, log the store
\* calls made. An updates.error of "None" is an updates dict without status.error.
_post_run(resp, task, err, hasDb, db) ==
    LET got == IF resp = <<>> /\ task # <<>>
               THEN _get_db_run(task, hasDb, db)
               ELSE [resp |-> resp, log |-> <<>>]
    IN  IF got.resp = <<>> THEN [resp |-> <<>>, db |-> db, log |-> got.log]
        ELSE LET r == got.resp[1]
                 ok == r.state # "error" /\ ~truthy_err(err)
                 r1 == IF ok THEN [r EXCEPT !.state = "completed"]
                       ELSE [r EXCEPT !.state = "error",
                                      !.error = IF truthy_err(err) THEN err ELSE @]
                 updates == IF ok THEN [state |-> "completed", error |-> "None"]
                            ELSE [state |-> "error",
                                  error |-> IF truthy_err(r1.error) THEN r1.error ELSE "None"]
                 uid == run_uid(r1.uid, r1.iteration)
             IN  IF hasDb
                 THEN [resp |-> <<r1>>,
                       db |-> db_update_run(db, updates, uid, r1.project),
                       log |-> got.log \o <<LogEntry("update", uid, r1.project,
                                                     updates.state, updates.error)>>]
                 ELSE [resp |-> <<r1>>, db |-> db, log |-> got.log]

-----------------------------------------------------------------------------
(* NormSpec: _post_run applied to every bounded payload, then to its result *)

NormStates == {"submitted", "running", "completed", "error"}

NormErrors == {"None", "", "perr"}

NoApplication == [resp |-> <<>>, db |-> EmptyDb, log |-> <<>>]

NormIdle ==
    /\ normPc = "idle"
    /\ normResp = <<>>
    /\ normTask = <<>>
    /\ normErr = "None"
    /\ normHasDb = FALSE
    /\ normDb = EmptyDb
    /\ normFirst = NoApplication
    /\ normSecond = NoApplication

\* the task is a standalone run or a sweep member; its state is 'error' only when
\* _run_many has set it from the raised error; the payload and the stored run
\* carry the task's identity
NormInputs ==
    /\ normPc = "in"
    /\ normHasDb \in BOOLEAN
    /\ normErr \in {"None", "rerr"}
    /\ \E it \in {0, 1}, ts \in {"submitted", "error"} :
        /\ ts = "error" => normErr # "None"
        /\ normTask = <<RunDict(Uid, it, ts, IF ts = "error" THEN normErr ELSE "None",
                                [f \in OutFields |-> NoVal])>>
        /\ normResp \in {<<>>} \cup
                {<<RunDict(Uid, it, s, e, [f \in OutFields |-> Num(1)])>> :
                    s \in NormStates, e \in NormErrors}
        /\ IF normHasDb
           THEN normDb \in
                {(<<run_uid(Uid, it), Project>> :>
                    RunDict(Uid, it, s, e, [f \in OutFields |-> NoVal])) :
                        s \in NormStates, e \in NormErrors}
           ELSE normDb = EmptyDb
    /\ normFirst = NoApplication
    /\ normSecond = NoApplication

\* the first application: _post_run(resp, task=task, err=err)
NormApply ==
    /\ normPc = "in"
    /\ normFirst' = _post_run(normResp, normTask, normErr, normHasDb, normDb)
    /\ normPc' = "once"
    /\ UNCHANGED <<normResp, normTask, normErr, normHasDb, normDb, normSecond>>

\* _results_to_iter: self._post_run(task) on the dict the first application returned
NormApplyAgain ==
    /\ normPc = "once"
    /\ normSecond' = _post_run(normFirst.resp, <<>>, "None", normHasDb, normFirst.db)
    /\ normPc' = "twice"
    /\ UNCHANGED <<normResp, normTask, normErr, normHasDb, normDb, normFirst>>

\* the same call once more on the dict it returned
NormApplySame ==
    /\ normPc = "once"
    /\ normSecond' = _post_run(normFirst.resp, normTask, normErr, normHasDb, normFirst.db)
    /\ normPc' = "twice"
    /\ UNCHANGED <<normResp, normTask, normErr, normHasDb, normDb, normFirst>>

-----------------------------------------------------------------------------
(* SelSpec: selector applied to every bounded results list and criteria *)

\* the outputs dicts: each field present with a value, or missing
OutputsSet == [OutFields -> {NoVal} \cup {Num(n) : n \in OutVals}]

\* a terminal run dict of iteration it
TerminalRuns(it) ==
    {RunDict(Uid, it, s, IF s = "error" THEN "perr" ELSE "None", o) :
        s \in {"completed", "error"}, o \in OutputsSet}

\* results lists of length k in generation order: the j-th entry is iteration j
RECURSIVE ResultListsOfLen(_)
ResultListsOfLen(k) ==
    IF k = 0 THEN {<<>>}
    ELSE {Append(r, t) : r \in ResultListsOfLen(k - 1), t \in TerminalRuns(k)}

ResultLists(n) == UNION {ResultListsOfLen(k) : k \in 0..n}

\* the criteria strings: None, '', 'a', 'max.a', 'min.a', 'max.b', 'avg.a',
\* '.a', 'max.', 'min.a.b'
CriteriaSet ==
    {NoneStr, Str(<<>>), Str(<<"a">>),
     Str(<<"m", "a", "x", ".", "a">>), Str(<<"m", "i", "n", ".", "a">>),
     Str(<<"m", "a", "x", ".", "b">>), Str(<<"a", "v", "g", ".", "a">>),
     Str(<<".", "a">>), Str(<<"m", "a", "x", ".">>),
     Str(<<"m", "i", "n", ".", "a", ".", "b">>)}

\* the variables of the selector call when another part is exercised
SelIdle ==
    /\ selPc = "idle"
    /\ selResults = <<>>
    /\ selCriteria = NoneStr
    /\ selOut = [item |-> 0, id |-> 0]
    /\ selTask = <<>>

SelInputs ==
    /\ selPc = "call"
    /\ selResults \in ResultLists(MaxSel)
    /\ selCriteria \in CriteriaSet
    /\ selOut = [item |-> 0, id |-> 0]
    /\ selTask = <<>>

\* item, id = selector(results, runspec.spec.selector); task = results[item] ...
SelectorCall ==
    /\ selPc = "call"
    /\ selOut' = selector(selResults, selCriteria)
    /\ selTask' = elected_task(selResults, selOut')
    /\ selPc' = "done"
    /\ UNCHANGED <<selResults, selCriteria>>

-----------------------------------------------------------------------------
(* run, _run_many, _results_to_iter *)

\* the state of a run object that has not run yet
InitialState == "submitted"

NoOutputs == [f \in OutFields |-> NoVal]

\* a None entry of the RunList: utils.get_in on None gives the default for every key
NoneDict == RunDict(<<>>, 0, "None", "None", NoOutputs)

from_opt(o) == IF o = <<>> THEN NoneDict ELSE o[1]

to_opt(d) == IF d = NoneDict THEN <<>> ELSE <<d>>

\* task_generator.generate(runspec): the i-th task copies the parent and takes
\* iteration i
generate_task(parent, i) == [parent EXCEPT !.iteration = i]

\* MLClientCtx.set_state(state, error): an error sets the state to 'error'
set_state(exec, state, error) ==
    IF error # "None" THEN [state |-> "error", error |-> error]
    ELSE [exec EXCEPT !.state = state]

\* MLClientCtx.to_dict()
execution_to_dict(exec, parent) ==
    [parent EXCEPT !.state = exec.state, !.error = exec.error]

run_many_step_no_catch(t, r, err, db_conn, store) ==
    IF err = "None"
    THEN LET pr == _post_run(r, <<t>>, "None", db_conn, store)
         IN  [task |-> t, resp |-> pr.resp, db |-> pr.db, log |-> pr.log,
              escaped |-> FALSE]
    ELSE [task |-> t, resp |-> <<>>, db |-> store, log |-> <<>>, escaped |-> TRUE]

\* the body of the loop of _run_many after _run: _post_run of the response, or
\* the except branch. [task, resp (the entry appended), db, log, escaped]
run_many_step(t, r, err, db_conn, store) ==
    IF err = "None"
    THEN LET pr == _post_run(r, <<t>>, "None", db_conn, store)
         IN  [task |-> t, resp |-> pr.resp, db |-> pr.db, log |-> pr.log,
              escaped |-> FALSE]
    ELSE LET t1 == [t EXCEPT !.state = "error", !.error = err]
             pr == _post_run(<<>>, <<t1>>, err, db_conn, store)
         IN  [task |-> t1, resp |-> pr.resp, db |-> pr.db, log |-> pr.log,
              escaped |-> FALSE]

count_failed_flag(failed, state) ==
    IF state = "error" THEN 1 ELSE failed

\* if state == 'error': failed += 1
count_failed(failed, state) ==
    IF state = "error" THEN failed + 1 ELSE failed

\* the loop of _results_to_iter over the results from position i:
\* acc is [results, db, log, failed]
RECURSIVE to_iter_loop(_, _, _)
to_iter_loop(i, db_conn, acc) ==
    IF i > Len(acc.results) THEN acc
    ELSE LET t == acc.results[i]
             pr == _post_run(to_opt(t), <<>>, "None", db_conn, acc.db)
         IN  to_iter_loop(i + 1, db_conn,
                          [results |-> [acc.results EXCEPT ![i] = from_opt(pr.resp)],
                           db |-> pr.db,
                           log |-> acc.log \o pr.log,
                           failed |-> count_failed(acc.failed, t.state)])

\* '{} tasks failed, check logs for db for details'.format(failed)
failed_message(failed) ==
    ToString(failed) \o " tasks failed, check logs for db for details"

\* _results_to_iter(results, runspec, execution): [results, db, log, elected, execution]
_results_to_iter(res, selcrit, exec, db_conn, store) ==
    IF res = <<>>
    THEN [results |-> res, db |-> store, log |-> <<>>,
          elected |-> [id |-> 0, task |-> <<>>], execution |-> exec]
    ELSE LET acc == to_iter_loop(1, db_conn,
                                 [results |-> res, db |-> store, log |-> <<>>, failed |-> 0])
             sel == selector(acc.results, selcrit)
         IN  [results |-> acc.results, db |-> acc.db, log |-> acc.log,
              elected |-> [id |-> sel.id, task |-> elected_task(acc.results, sel)],
              execution |-> IF acc.failed # 0
                            THEN set_state(exec, "None", failed_message(acc.failed))
                            ELSE set_state(exec, "completed", "None")]

\* show(results, resp): a falsy resp puts runspec.to_dict() on the list
show(res, r, parent) ==
    IF r # <<>> THEN Append(res, r[1]) ELSE Append(res, parent)

\* ---- the backend: what _run does with a task

\* the status a backend reports back
BackendStatus ==
    {<<"running", "None">>, <<"completed", "None">>, <<"error", "perr">>,
     <<"error", "None">>}

BackendOutputs == {NoOutputs} \cup {[f \in OutFields |-> Num(n)] : n \in {1, 2}}

RunSelectors ==
    {NoneStr, Str(<<"m", "a", "x", ".", "a">>), Str(<<"m", "i", "n", ".", "a">>)}

-----------------------------------------------------------------------------
(* Spec: one call of run() *)

RunIdle ==
    /\ pc = "idle"
    /\ kind = "single"
    /\ runHasDb = FALSE
    /\ nTasks = 0
    /\ runSelector = NoneStr
    /\ runspec = NoneDict
    /\ taskNo = 0
    /\ theTask = <<>>
    /\ theResp = <<>>
    /\ raised = "None"
    /\ runDb = EmptyDb
    /\ dbLog = <<>>
    /\ runResults = <<>>
    /\ hist = <<>>
    /\ execution = [state |-> InitialState, error |-> "None"]
    /\ elected = [id |-> 0, task |-> <<>>]
    /\ result = <<>>
    /\ outcome = "none"

RunInputs ==
    /\ pc = "start"
    /\ kind \in {"single", "batch"}
    /\ runHasDb \in BOOLEAN
    /\ nTasks \in 0..MaxTasks
    /\ kind = "single" => nTasks = 0
    /\ runSelector \in RunSelectors
    /\ kind = "single" => runSelector = NoneStr
    /\ runspec = RunDict(Uid, 0, InitialState, "None", NoOutputs)
    /\ taskNo = 0
    /\ theTask = <<>>
    /\ theResp = <<>>
    /\ raised = "None"
    /\ runDb = EmptyDb
    /\ dbLog = <<>>
    /\ runResults = <<>>
    /\ hist = <<>>
    /\ execution = [state |-> InitialState, error |-> "None"]
    /\ elected = [id |-> 0, task |-> <<>>]
    /\ result = <<>>
    /\ outcome = "none"

\* run() up to the first task: a standalone run is its own task, a sweep takes
\* the generator's first task; a generator that yields nothing ends _run_many
RunStart ==
    /\ pc = "start"
    /\ IF kind = "single"
       THEN taskNo' = 0 /\ theTask' = <<runspec>> /\ pc' = "store"
       ELSE IF nTasks = 0
            THEN taskNo' = 0 /\ theTask' = <<>> /\ pc' = "to_iter"
            ELSE taskNo' = 1 /\ theTask' = <<generate_task(runspec, 1)>> /\ pc' = "store"
    /\ UNCHANGED <<kind, runHasDb, nTasks, runSelector, runspec, theResp, raised, runDb, dbLog,
                   runResults, hist, execution, elected, result, outcome>>

\* self.store_run(task)
StoreRun ==
    /\ pc = "store"
    /\ LET st == store_run(theTask, runHasDb, runDb)
       IN  runDb' = st.db /\ dbLog' = dbLog \o st.log
    /\ pc' = "exec"
    /\ UNCHANGED <<kind, runHasDb, nTasks, runSelector, runspec, taskNo, theTask, theResp, raised,
                   runResults, hist, execution, elected, result, outcome>>

\* resp = self._run(task, execution): the backend returns a payload
RunReturns ==
    /\ pc = "exec"
    /\ \E st \in BackendStatus, o \in BackendOutputs :
        /\ theResp' = <<[theTask[1] EXCEPT !.state = st[1], !.error = st[2], !.outputs = o]>>
        /\ hist' = Append(hist, [kind |-> "resp", state |-> st[1], error |-> st[2]])
    /\ raised' = "None"
    /\ pc' = "post"
    /\ UNCHANGED <<kind, runHasDb, nTasks, runSelector, runspec, taskNo, theTask, runDb, dbLog,
                   runResults, execution, elected, result, outcome>>

\* resp = self._run(task, execution): the backend returns None; with a store the
\* job itself may have written its status to the stored run
RunReturnsNone ==
    /\ pc = "exec"
    /\ \E st \in {<<InitialState, "None">>, <<"completed", "None">>, <<"error", "perr">>} :
        /\ ~runHasDb => st = <<InitialState, "None">>
        /\ runDb' = IF runHasDb
                 THEN db_update_run(runDb, [state |-> st[1], error |-> st[2]],
                                    run_uid(theTask[1].uid, theTask[1].iteration),
                                    theTask[1].project)
                 ELSE runDb
        /\ hist' = Append(hist, [kind |-> "none", state |-> st[1], error |-> st[2]])
    /\ theResp' = <<>>
    /\ raised' = "None"
    /\ pc' = "post"
    /\ UNCHANGED <<kind, runHasDb, nTasks, runSelector, runspec, taskNo, theTask, dbLog,
                   runResults, execution, elected, result, outcome>>

\* self._run(task, execution) raises RunError
RunRaises ==
    /\ pc = "exec"
    /\ raised' = "rerr"
    /\ theResp' = <<>>
    /\ hist' = Append(hist, [kind |-> "raise", state |-> "None", error |-> "rerr"])
    /\ pc' = "post"
    /\ UNCHANGED <<kind, runHasDb, nTasks, runSelector, runspec, taskNo, theTask, runDb, dbLog,
                   runResults, execution, elected, result, outcome>>

\* ---- faults of the collaborators (FaultSpec)

\* the exceptions a failing store call raises: a RunError, which the except
\* clauses of run() and _run_many match, or any other exception
StoreExceptions == {"RunError", "Exception"}

\* the error a failing store call raises
StoreError == "serr"

\* self.store_run(task) with self._db_conn.store_run raising: a RunError is
\* caught by the except clause around it, which goes on to _post_run(task=task,
\* err=err); another exception leaves run()
StoreRunRaises ==
    /\ pc = "store"
    /\ runHasDb
    /\ \E exc \in StoreExceptions :
        IF exc = "RunError"
        THEN /\ raised' = StoreError
             /\ hist' = Append(hist, [kind |-> "store_raise", state |-> "None",
                                      error |-> StoreError])
             /\ pc' = "post"
             /\ outcome' = outcome
        ELSE /\ raised' = raised
             /\ hist' = hist
             /\ pc' = "done"
             /\ outcome' = "store_error"
    /\ UNCHANGED <<kind, runHasDb, nTasks, runSelector, runspec, taskNo, theTask, theResp,
                   runDb, dbLog, runResults, execution, elected, result>>

\* self._post_run(resp, task=task) with self._db_conn.update_run raising: in the
\* try block a RunError is caught by the except clause, which calls _post_run
\* again with the error; any other exception, and any exception raised inside
\* the except clause, leaves run()
UpdateRunRaises ==
    /\ pc = "post"
    /\ runHasDb
    /\ dbLog' = IF theResp = <<>>
                THEN dbLog \o _get_db_run(IF kind = "batch" /\ raised # "None"
                                          THEN <<[theTask[1] EXCEPT !.state = "error",
                                                                    !.error = raised]>>
                                          ELSE theTask, runHasDb, runDb).log
                ELSE dbLog
    /\ \E exc \in StoreExceptions :
        IF raised = "None" /\ exc = "RunError"
        THEN /\ raised' = StoreError
             /\ theResp' = <<>>
             /\ pc' = "post"
             /\ outcome' = outcome
        ELSE /\ raised' = raised
             /\ theResp' = theResp
             /\ pc' = "done"
             /\ outcome' = "store_error"
    /\ UNCHANGED <<kind, runHasDb, nTasks, runSelector, runspec, taskNo, theTask, runDb,
                   runResults, hist, execution, elected, result>>

\* if resp and self.kfp: _write_kfpmeta(resp), with the write of the report
\* files failing: the OSError is no RunError and leaves run(); in a single run
\* this is before _post_run, in a sweep after _results_to_iter
KfpmetaRaises ==
    /\ \/ pc = "post" /\ kind = "single" /\ raised = "None" /\ theResp # <<>>
       \/ pc = "show" /\ kind = "batch"
    /\ pc' = "done"
    /\ outcome' = "report_error"
    /\ UNCHANGED <<kind, runHasDb, nTasks, runSelector, runspec, taskNo, theTask, theResp,
                   raised, runDb, dbLog, runResults, hist, execution, elected, result>>

\* _run_many: resp = self._post_run(resp, task=task), or the except branch, then
\* results.append(resp) and the next task
RunManyPost ==
    /\ pc = "post"
    /\ kind = "batch"
    /\ LET st == run_many_step(theTask[1], theResp, raised, runHasDb, runDb)
       IN  IF st.escaped
           THEN /\ pc' = "done"
                /\ outcome' = "raised"
                /\ UNCHANGED <<runDb, dbLog, runResults, taskNo, theTask>>
           ELSE /\ runDb' = st.db
                /\ dbLog' = dbLog \o st.log
                /\ runResults' = Append(runResults, from_opt(st.resp))
                /\ outcome' = outcome
                /\ IF taskNo < nTasks
                   THEN taskNo' = taskNo + 1 /\ theTask' = <<generate_task(runspec, taskNo + 1)>>
                        /\ pc' = "store"
                   ELSE taskNo' = taskNo /\ theTask' = <<>> /\ pc' = "to_iter"
    /\ theResp' = <<>>
    /\ raised' = "None"
    /\ UNCHANGED <<kind, runHasDb, nTasks, runSelector, runspec, hist, execution, elected,
                   result>>

\* run(), single run: result = show(results, self._post_run(resp, task=runspec)),
\* or the except branch: show(results, self._post_run(task=runspec, err=err))
SinglePost ==
    /\ pc = "post"
    /\ kind = "single"
    /\ LET pr == IF raised = "None"
                 THEN _post_run(theResp, <<runspec>>, "None", runHasDb, runDb)
                 ELSE _post_run(<<>>, <<runspec>>, raised, runHasDb, runDb)
       IN  /\ runDb' = pr.db
           /\ dbLog' = dbLog \o pr.log
           /\ runResults' = show(runResults, pr.resp, runspec)
           /\ result' = pr.resp
    /\ theResp' = <<>>
    /\ theTask' = <<>>
    /\ pc' = "finish"
    /\ UNCHANGED <<kind, runHasDb, nTasks, runSelector, runspec, taskNo, raised, hist,
                   execution, elected, outcome>>

\* self._results_to_iter(results, runspec, execution)
ResultsToIter ==
    /\ pc = "to_iter"
    /\ LET it == _results_to_iter(runResults, runSelector, execution, runHasDb, runDb)
       IN  /\ runResults' = it.results
           /\ runDb' = it.db
           /\ dbLog' = dbLog \o it.log
           /\ elected' = it.elected
           /\ execution' = it.execution
    /\ pc' = "show"
    /\ UNCHANGED <<kind, runHasDb, nTasks, runSelector, runspec, taskNo, theTask, theResp, raised,
                   hist, result, outcome>>

\* resp = execution.to_dict(); result = show(results, resp)
BatchShow ==
    /\ pc = "show"
    /\ LET r == <<execution_to_dict(execution, runspec)>>
       IN  /\ runResults' = show(runResults, r, runspec)
           /\ result' = r
    /\ pc' = "finish"
    /\ UNCHANGED <<kind, runHasDb, nTasks, runSelector, runspec, taskNo, theTask, theResp, raised, runDb,
                   dbLog, hist, execution, elected, outcome>>

\* if result: ... if runspec.status.state == 'error': raise RunError(...);
\* return run; else return None
RunFinish ==
    /\ pc = "finish"
    /\ outcome' = IF result # <<>> /\ runspec.state = "error" THEN "raised" ELSE "returned"
    /\ pc' = "done"
    /\ UNCHANGED <<kind, runHasDb, nTasks, runSelector, runspec, taskNo, theTask, theResp, raised, runDb,
                   dbLog, runResults, hist, execution, elected, result>>

-----------------------------------------------------------------------------
(* build_image, _build_image *)

\* the runtime object is [is_built, spec_image, spec_mode, build_image,
\* base_image, commands, source, build_pod]; '' is the unset str, build_pod 0 is
\* None and n > 0 is the handle of the n-th build dispatched; the builder is
\* [polls, dispatches], counting the calls of get_pod_status and build_runtime

\* k8s.get_pod_status(pod)
PodStatuses == {"pending", "running", "succeeded", "failed", "error"}

\* build_runtime(self, with_mlrun, watch): without a target image it fails before
\* anything is dispatched; otherwise it dispatches the build. ready is whether
\* the build has completed on return: the target image is then the runtime
\* image; otherwise the runtime keeps the handle of the pending build.
build_runtime(rt, b, ready) ==
    IF rt.build_image = ""
    THEN [rt |-> rt, builder |-> b, ready |-> FALSE, failed |-> TRUE]
    ELSE [rt |-> IF ready
                 THEN [rt EXCEPT !.build_pod = 0, !.spec_image = rt.build_image]
                 ELSE [rt EXCEPT !.build_pod = b.dispatches + 1],
          builder |-> [b EXCEPT !.dispatches = @ + 1],
          ready |-> ready, failed |-> FALSE]

\* the message of a failed build without the build pod
build_error_no_pod(status, pod) ==
    "build " \o status \o ", watch the build pod logs"

\* ' build {}, watch the build pod logs: {}'.format(status, pod)
build_error(status, pod) ==
    "build " \o status \o ", watch the build pod logs: " \o ToString(pod)

\* 'image or base_image must be specified'
image_error == "image or base_image must be specified"

\* _build_image adopting the base image over an explicit image
_build_image_base_first(rt, b, status, ready) ==
    IF ~rt.is_built /\ rt.build_pod # 0
    THEN LET b1 == [b EXCEPT !.polls = @ + 1]
         IN  IF status = "succeeded"
             THEN [rt |-> [rt EXCEPT !.build_pod = 0, !.is_built = TRUE],
                   builder |-> b1, ret |-> "True", err |-> "None"]
             ELSE IF status \in {"failed", "error"}
                  THEN [rt |-> rt, builder |-> b1, ret |-> "RunError",
                        err |-> build_error(status, rt.build_pod)]
                  ELSE [rt |-> rt, builder |-> b1, ret |-> "False", err |-> "None"]
    ELSE IF rt.commands = <<>> /\ rt.spec_mode = "pass" /\ rt.source = ""
            /\ rt.spec_image = "" /\ rt.base_image = ""
         THEN [rt |-> rt, builder |-> b, ret |-> "RunError", err |-> image_error]
         ELSE LET rt1 == IF rt.commands = <<>> /\ rt.spec_mode = "pass" /\ rt.source = ""
                         THEN [rt EXCEPT !.spec_image =
                                    IF rt.base_image # "" THEN rt.base_image ELSE @]
                         ELSE rt
              IN  IF rt1.spec_image # ""
                  THEN [rt |-> [rt1 EXCEPT !.is_built = TRUE], builder |-> b,
                        ret |-> "True", err |-> "None"]
                  ELSE LET br == build_runtime(rt1, b, ready)
                       IN  IF br.failed
                           THEN [rt |-> rt1, builder |-> b, ret |-> "ValueError",
                                 err |-> "None"]
                           ELSE [rt |-> [br.rt EXCEPT !.is_built = br.ready],
                                 builder |-> br.builder, ret |-> "None",
                                 err |-> "None"]

\* _build_image without the return after a poll that is neither succeeded nor
\* failed: the call goes on to the rest of the function
_build_image_poll_falls_through(rt, b, status, ready) ==
    LET polling == ~rt.is_built /\ rt.build_pod # 0
        b1 == IF polling THEN [b EXCEPT !.polls = @ + 1] ELSE b
    IN  IF polling /\ status = "succeeded"
        THEN [rt |-> [rt EXCEPT !.build_pod = 0, !.is_built = TRUE],
              builder |-> b1, ret |-> "True", err |-> "None"]
        ELSE IF polling /\ status \in {"failed", "error"}
        THEN [rt |-> rt, builder |-> b1, ret |-> "RunError",
              err |-> build_error(status, rt.build_pod)]
        ELSE IF rt.commands = <<>> /\ rt.spec_mode = "pass" /\ rt.source = ""
                /\ rt.spec_image = "" /\ rt.base_image = ""
        THEN [rt |-> rt, builder |-> b1, ret |-> "RunError", err |-> image_error]
        ELSE LET rt1 == IF rt.commands = <<>> /\ rt.spec_mode = "pass" /\ rt.source = ""
                        THEN [rt EXCEPT !.spec_image =
                                   IF @ # "" THEN @ ELSE rt.base_image]
                        ELSE rt
             IN  IF rt1.spec_image # ""
                 THEN [rt |-> [rt1 EXCEPT !.is_built = TRUE], builder |-> b1,
                       ret |-> "True", err |-> "None"]
                 ELSE LET br == build_runtime(rt1, b1, ready)
                      IN  IF br.failed
                          THEN [rt |-> rt1, builder |-> b1, ret |-> "ValueError",
                                err |-> "None"]
                          ELSE [rt |-> [br.rt EXCEPT !.is_built = br.ready],
                                builder |-> br.builder, ret |-> "None",
                                err |-> "None"]

\* _build_image without the check that an image or a base image is set
_build_image_no_image_check(rt, b, status, ready) ==
    IF ~rt.is_built /\ rt.build_pod # 0
    THEN LET b1 == [b EXCEPT !.polls = @ + 1]
         IN  IF status = "succeeded"
             THEN [rt |-> [rt EXCEPT !.build_pod = 0, !.is_built = TRUE],
                   builder |-> b1, ret |-> "True", err |-> "None"]
             ELSE IF status \in {"failed", "error"}
                  THEN [rt |-> rt, builder |-> b1, ret |-> "RunError",
                        err |-> build_error(status, rt.build_pod)]
                  ELSE [rt |-> rt, builder |-> b1, ret |-> "False", err |-> "None"]
    ELSE LET rt1 == IF rt.commands = <<>> /\ rt.spec_mode = "pass" /\ rt.source = ""
                    THEN [rt EXCEPT !.spec_image =
                               IF @ # "" THEN @ ELSE rt.base_image]
                    ELSE rt
         IN  IF rt1.spec_image # ""
             THEN [rt |-> [rt1 EXCEPT !.is_built = TRUE], builder |-> b,
                   ret |-> "True", err |-> "None"]
             ELSE LET br == build_runtime(rt1, b, ready)
                  IN  IF br.failed
                      THEN [rt |-> rt1, builder |-> b, ret |-> "ValueError",
                            err |-> "None"]
                      ELSE [rt |-> [br.rt EXCEPT !.is_built = br.ready],
                            builder |-> br.builder, ret |-> "None",
                            err |-> "None"]

\* _build_image(watch, with_mlrun): [rt, builder, ret, err]; ret is "True", "False",
\* "None" (the end of the function), "RunError", or "ValueError" when
\* build_runtime fails; err is the message of the RunError raised, else "None".
\* status is what the builder answers to a poll, ready what build_runtime returns.
_build_image(rt, b, status, ready) ==
    IF ~rt.is_built /\ rt.build_pod # 0
    THEN LET b1 == [b EXCEPT !.polls = @ + 1]
         IN  IF status = "succeeded"
             THEN [rt |-> [rt EXCEPT !.build_pod = 0, !.is_built = TRUE],
                   builder |-> b1, ret |-> "True", err |-> "None"]
             ELSE IF status \in {"failed", "error"}
                  THEN [rt |-> rt, builder |-> b1, ret |-> "RunError",
                        err |-> build_error(status, rt.build_pod)]
                  ELSE [rt |-> rt, builder |-> b1, ret |-> "False", err |-> "None"]
    ELSE IF rt.commands = <<>> /\ rt.spec_mode = "pass" /\ rt.source = ""
            /\ rt.spec_image = "" /\ rt.base_image = ""
         THEN [rt |-> rt, builder |-> b, ret |-> "RunError", err |-> image_error]
         ELSE LET rt1 == IF rt.commands = <<>> /\ rt.spec_mode = "pass" /\ rt.source = ""
                         THEN [rt EXCEPT !.spec_image =
                                    IF @ # "" THEN @ ELSE rt.base_image]
                         ELSE rt
              IN  IF rt1.spec_image # ""
                  THEN [rt |-> [rt1 EXCEPT !.is_built = TRUE], builder |-> b,
                        ret |-> "True", err |-> "None"]
                  ELSE LET br == build_runtime(rt1, b, ready)
                       IN  IF br.failed
                           THEN [rt |-> rt1, builder |-> b, ret |-> "ValueError",
                                 err |-> "None"]
                           ELSE [rt |-> [br.rt EXCEPT !.is_built = br.ready],
                                 builder |-> br.builder, ret |-> "None",
                                 err |-> "None"]

\* build_image(image, base_image, commands), up to the call of _build_image
build_image_args(rt, image, base, commands) ==
    [rt EXCEPT !.build_image = image,
               !.spec_image = "",
               !.commands = @ \o commands,
               !.base_image = IF base # "" THEN base ELSE @]

\* build_image(image, base_image, commands): [rt, builder, ret, err]
build_image(rt, b, image, base, commands, status, ready) ==
    _build_image(build_image_args(rt, image, base, commands), b, status, ready)

-----------------------------------------------------------------------------
(* GateSpec: calls of build_image and _build_image on one runtime object *)

GateIdle ==
    /\ runtime = [is_built |-> FALSE, spec_image |-> "", spec_mode |-> "",
                  build_image |-> "", base_image |-> "", commands |-> <<>>,
                  source |-> "", build_pod |-> 0]
    /\ builder = [polls |-> 0, dispatches |-> 0]
    /\ gateCalls = 0
    /\ gateRet = "idle"
    /\ gateErr = "None"
    /\ gateEntry = <<>>

\* a runtime as constructed: not built; spec and build as the caller gave them,
\* the build possibly carrying the handle of a build dispatched before
GateInputs ==
    /\ runtime \in [is_built : {FALSE}, spec_image : {"", "img"},
                    spec_mode : {"", "pass"}, build_image : {"", "target"},
                    base_image : {"", "base"}, commands : {<<>>, <<"c">>},
                    source : {"", "src"}, build_pod : {0, 1}]
    /\ builder = [polls |-> 0, dispatches |-> runtime.build_pod]
    /\ gateCalls = 0
    /\ gateRet = "none"
    /\ gateErr = "None"
    /\ gateEntry = <<>>

\* one call of _build_image, with the builder's answer
BuildGateCall ==
    /\ gateCalls < MaxGateCalls
    /\ \E status \in PodStatuses, ready \in BOOLEAN :
        LET g == _build_image(runtime, builder, status, ready)
        IN  /\ runtime' = g.rt
            /\ builder' = g.builder
            /\ gateRet' = g.ret
            /\ gateErr' = g.err
            /\ gateEntry' = <<[rt |-> runtime, builder |-> builder, status |-> status]>>
    /\ gateCalls' = gateCalls + 1

\* one call of build_image, with the builder's answer
BuildImageCall ==
    /\ gateCalls < MaxGateCalls
    /\ \E base \in {"", "base"}, commands \in {<<>>, <<"c">>},
          status \in PodStatuses, ready \in BOOLEAN :
        LET g == build_image(runtime, builder, "target", base, commands, status, ready)
        IN  /\ runtime' = g.rt
            /\ builder' = g.builder
            /\ gateRet' = g.ret
            /\ gateErr' = g.err
            /\ gateEntry' = <<[rt |-> build_image_args(runtime, "target", base, commands),
                                builder |-> builder, status |-> status]>>
    /\ gateCalls' = gateCalls + 1

\* the runtime a run uses: its image is being built, the build dispatched and
\* not yet polled
RunGate ==
    /\ runtime = [is_built |-> FALSE, spec_image |-> "", spec_mode |-> "",
                  build_image |-> "target", base_image |-> "", commands |-> <<"c">>,
                  source |-> "", build_pod |-> 1]
    /\ builder = [polls |-> 0, dispatches |-> 1]
    /\ gateCalls = 0
    /\ gateRet = "none"
    /\ gateErr = "None"
    /\ gateEntry = <<>>

\* self._run(task, execution) of a backend that needs the image: it asks the
\* build gate, the poll of the pending build reports a failure, and the gate's
\* RunError leaves _run
RunGateFails ==
    /\ pc = "exec"
    /\ \E status \in PodStatuses :
        LET g == _build_image(runtime, builder, status, FALSE)
        IN  /\ g.ret = "RunError"
            /\ runtime' = g.rt
            /\ builder' = g.builder
            /\ gateRet' = g.ret
            /\ gateErr' = g.err
            /\ gateEntry' = <<[rt |-> runtime, builder |-> builder, status |-> status]>>
            /\ raised' = g.err
            /\ hist' = Append(hist, [kind |-> "raise", state |-> "None", error |-> g.err])
    /\ gateCalls' = gateCalls + 1
    /\ theResp' = <<>>
    /\ pc' = "post"
    /\ UNCHANGED <<kind, runHasDb, nTasks, runSelector, runspec, taskNo, theTask, runDb, dbLog,
                   runResults, execution, elected, result, outcome>>

-----------------------------------------------------------------------------
(* Specifications *)

\* selector on every bounded results list and criteria
SelInit == SelInputs /\ NormIdle /\ RunIdle /\ GateIdle

SelNext == SelectorCall /\ UNCHANGED <<normVars, runVars, gateVars>>

SelSpec == SelInit /\ [][SelNext]_vars

\* _post_run on every bounded payload, then on its result
NormInit == NormInputs /\ SelIdle /\ RunIdle /\ GateIdle

NormNext ==
    \/ NormApply /\ UNCHANGED <<selVars, runVars, gateVars>>
    \/ NormApplyAgain /\ UNCHANGED <<selVars, runVars, gateVars>>
    \/ NormApplySame /\ UNCHANGED <<selVars, runVars, gateVars>>

NormSpec == NormInit /\ [][NormNext]_vars

\* one call of run(), standalone or sweep
Init == RunInputs /\ SelIdle /\ NormIdle /\ RunGate

Next ==
    \/ RunStart /\ UNCHANGED <<selVars, normVars, gateVars>>
    \/ StoreRun /\ UNCHANGED <<selVars, normVars, gateVars>>
    \/ RunReturns /\ UNCHANGED <<selVars, normVars, gateVars>>
    \/ RunReturnsNone /\ UNCHANGED <<selVars, normVars, gateVars>>
    \/ RunRaises /\ UNCHANGED <<selVars, normVars, gateVars>>
    \/ RunGateFails /\ UNCHANGED <<selVars, normVars>>
    \/ RunManyPost /\ UNCHANGED <<selVars, normVars, gateVars>>
    \/ SinglePost /\ UNCHANGED <<selVars, normVars, gateVars>>
    \/ ResultsToIter /\ UNCHANGED <<selVars, normVars, gateVars>>
    \/ BatchShow /\ UNCHANGED <<selVars, normVars, gateVars>>
    \/ RunFinish /\ UNCHANGED <<selVars, normVars, gateVars>>

Spec == Init /\ [][Next]_vars

\* one call of run() with a store and a report sink that may fail
FaultInit == Init

FaultNext ==
    \/ Next
    \/ StoreRunRaises /\ UNCHANGED <<selVars, normVars, gateVars>>
    \/ UpdateRunRaises /\ UNCHANGED <<selVars, normVars, gateVars>>
    \/ KfpmetaRaises /\ UNCHANGED <<selVars, normVars, gateVars>>

FaultSpec == FaultInit /\ [][FaultNext]_vars

\* calls of build_image and _build_image on one runtime object
GateInit == GateInputs /\ SelIdle /\ NormIdle /\ RunIdle

GateNext ==
    \/ BuildGateCall /\ UNCHANGED <<selVars, normVars, runVars>>
    \/ BuildImageCall /\ UNCHANGED <<selVars, normVars, runVars>>

GateSpec == GateInit /\ [][GateNext]_vars

-----------------------------------------------------------------------------
(* Claims about selector (SelSpec) *)

\* the op and field the call parsed; only read when the criteria is truthy
SelParsed == parse_criteria(selCriteria.str)

\* the tasks the scan may elect: not failed, reporting the target field
SelCandidates ==
    {i \in 1..Len(selResults) :
        /\ selResults[i].state # "error"
        /\ SelParsed.field \in DOMAIN selResults[i].outputs
        /\ selResults[i].outputs[SelParsed.field].has}

SelValue(i) == selResults[i].outputs[SelParsed.field].v

SelScanned == selPc = "done" /\ truthy_str(selCriteria) /\ SelParsed.op \in {OpMax, OpMin}

\* C3: with op max or min and at least one candidate task, selector elects the
\* candidate with the greatest (max) or least (min) value of the field, and the
\* earliest such candidate when several share that value.
C3_ElectsBestCandidate ==
    (SelScanned /\ SelCandidates # {}) =>
        LET w == selOut.item + 1
        IN  /\ w \in SelCandidates
            /\ selOut.id = selResults[w].iteration
            /\ \A c \in SelCandidates :
                    /\ SelParsed.op = OpMax => SelValue(c) <= SelValue(w)
                    /\ SelParsed.op = OpMin => SelValue(c) >= SelValue(w)
                    /\ SelValue(c) = SelValue(w) => w <= c

\* C4: the task selector elects is never in 'error' state and always has the
\* target field, and it is the task _results_to_iter records; failed tasks and
\* tasks without the field do not stop the scan: a candidate that improves on
\* the initial best is elected wherever it stands in the list.
C4_ElectedIsCandidate ==
    /\ (selPc = "done" /\ selOut.id # 0) =>
            /\ selOut.item + 1 \in 1..Len(selResults)
            /\ selResults[selOut.item + 1].state # "error"
            /\ SelParsed.field \in DOMAIN selResults[selOut.item + 1].outputs
            /\ selResults[selOut.item + 1].outputs[SelParsed.field].has
            /\ selTask = <<selResults[selOut.item + 1]>>
    /\ (SelScanned /\ \E c \in SelCandidates : SelParsed.op = OpMin \/ SelValue(c) > 0) =>
            selOut.id # 0

\* a failed task with the best value and a task without the field stand before
\* the elected task
C4_Witness ==
    /\ selPc = "done"
    /\ selCriteria = Str(<<"m", "a", "x", ".", "a">>)
    /\ Len(selResults) = 3
    /\ selResults[1].state = "error" /\ selResults[1].outputs[<<"a">>] = Num(2)
    /\ selResults[2].state = "completed" /\ selResults[2].outputs[<<"a">>] = NoVal
    /\ selResults[3].state = "completed" /\ selResults[3].outputs[<<"a">>] = Num(1)
    /\ selOut = [item |-> 2, id |-> 3]

\* C5: a criteria with op max or min under which every task is skipped gives a
\* selector result different from the one the absent criteria gives.
C5_NoWinnerDistinct ==
    (SelScanned /\ Len(selResults) > 0 /\ SelCandidates = {}) =>
        selOut # selector(selResults, NoneStr)

\* C6: with the criteria absent (None or '') or its op neither max nor min,
\* selector returns (0, 0) whatever the tasks are, and _results_to_iter records
\* no elected task.
C6_NoSelection ==
    (selPc = "done" /\ (~truthy_str(selCriteria) \/ SelParsed.op \notin {OpMax, OpMin})) =>
        /\ selOut = [item |-> 0, id |-> 0]
        /\ selTask = <<>>

\* an unsupported op over a list holding a task a max scan would elect
C6_Witness ==
    /\ selPc = "done"
    /\ selCriteria = Str(<<"a", "v", "g", ".", "a">>)
    /\ \E i \in 1..Len(selResults) :
            selResults[i].state = "completed" /\ selResults[i].outputs[<<"a">>] = Num(2)
    /\ selOut.id = 0


-----------------------------------------------------------------------------
(* Claims about _post_run (NormSpec) *)

\* the status.state and status.error of the update_run call of an application
NormUpdate(app) ==
    IF app.log # <<>> /\ app.log[Len(app.log)].op = "update"
    THEN <<app.log[Len(app.log)].key, app.log[Len(app.log)].state,
           app.log[Len(app.log)].error>>
    ELSE <<>>

\* C9: _post_run applied to the payload it has normalized returns the same
\* payload (so the same state and error) as the first application, sends the
\* same status.state and status.error to the store and leaves the stored run
\* as the first application left it.
C9_PostRunIdempotent ==
    normPc = "twice" =>
        /\ normSecond.resp = normFirst.resp
        /\ NormUpdate(normSecond) = NormUpdate(normFirst)
        /\ normSecond.db = normFirst.db

\* a running payload normalized to 'error' by a raised error, normalized again
\* without the error, with a store
C9_Witness ==
    /\ normPc = "twice"
    /\ normHasDb
    /\ normErr = "rerr"
    /\ normResp # <<>> /\ normResp[1].state = "running" /\ normResp[1].error = "None"
    /\ normFirst.resp[1].state = "error" /\ normFirst.resp[1].error = "rerr"
    /\ Len(normFirst.log) = 1
    /\ Len(normSecond.log) = 1

-----------------------------------------------------------------------------
(* Claims about run(), _run_many and _results_to_iter (Spec) *)

\* the state _post_run gives the j-th task when _run did not raise: 'error' when
\* the payload (returned, or read back from the store) said so
ExpectedState(j) ==
    IF hist[j].state = "error" THEN "error" ELSE "completed"

\* C1: in a sweep, whichever tasks' _run raises RunError, no RunError leaves
\* _run_many, every generated task is executed, _run_many returns one result
\* per task in generation order, a task that raised ends in state 'error' with
\* the raised error recorded, and any other task ends 'completed', or 'error'
\* when its payload said so.
C1_BatchIsolation ==
    kind = "batch" =>
        /\ outcome # "raised"
        /\ pc = "to_iter" => Len(runResults) = nTasks /\ Len(hist) = nTasks
        /\ pc \in {"store", "exec", "post", "to_iter"} =>
            \A j \in 1..Len(runResults) :
                /\ runResults[j].iteration = j
                /\ hist[j].kind = "raise" =>
                        /\ runResults[j].state = "error"
                        /\ runResults[j].error = hist[j].error
                /\ hist[j].kind # "raise" => runResults[j].state = ExpectedState(j)

\* _run_many has returned; the first task raised and the second completed
C1_Witness ==
    /\ kind = "batch"
    /\ pc = "to_iter"
    /\ nTasks >= 2
    /\ hist[1].kind = "raise"
    /\ hist[2].kind = "resp" /\ hist[2].state = "completed"
    /\ runResults[1].state = "error" /\ runResults[1].error = "rerr"
    /\ runResults[2].state = "completed"

FailedTasks == {j \in 1..Len(runResults) : runResults[j].state = "error"}

\* C2: after _results_to_iter on a non-empty results list, the execution's
\* state is 'error' with the message carrying the number k of results in state
\* 'error' when k >= 1, and 'completed' when k = 0, whether a task was elected
\* or not.
C2_AggregateState ==
    (pc = "show" /\ runResults # <<>>) =>
        /\ Cardinality(FailedTasks) >= 1 =>
                execution = [state |-> "error",
                             error |-> ToString(Cardinality(FailedTasks))
                                       \o " tasks failed, check logs for db for details"]
        /\ Cardinality(FailedTasks) = 0 => execution.state = "completed"

\* a sweep with a failed task and an elected task
C2_Witness ==
    /\ pc = "show"
    /\ Cardinality(FailedTasks) >= 1
    /\ elected.id # 0
    /\ execution.state = "error"

\* C7: a sweep whose generator yields no task does not end with run() returning
\* normally a result that is not in error.
C7_EmptyBatchIsError ==
    (pc = "done" /\ kind = "batch" /\ nTasks = 0) =>
        \/ outcome = "raised"
        \/ result # <<>> /\ result[1].state = "error"

\* C8: when _run raises RunError in a standalone run, the error state is in the
\* store and run() ends by raising RunError.
C8_SingleRunReraises ==
    (pc = "done" /\ kind = "single" /\ hist # <<>> /\ hist[1].kind = "raise") =>
        /\ runHasDb => runDb[<<Uid, Project>>].state = "error"
        /\ outcome = "raised"

-----------------------------------------------------------------------------
(* Claims about the build gate (GateSpec) *)

\* C10: once _is_built is true it stays true, and a call made while it is true
\* dispatches no build.
C10_BuiltMonotonic ==
    [][runtime.is_built =>
        (runtime'.is_built /\ builder'.dispatches = builder.dispatches)]_vars

\* C20: the pair (item, id) selector returns is consistent: a non-zero id comes
\* with an item that indexes the results list, and the task at that index has
\* iteration id; _results_to_iter records a task exactly when the id is
\* non-zero, and the task it records is the one of the list whose iteration is
\* the id.
C20_SelectorConsistent ==
    selPc = "done" =>
        /\ selOut.id # 0 =>
            /\ selOut.item \in 0..(Len(selResults) - 1)
            /\ selResults[selOut.item + 1].iteration = selOut.id
        /\ (selTask # <<>>) <=> (selOut.id # 0)
        /\ selTask # <<>> =>
            /\ selTask[1].iteration = selOut.id
            /\ \E i \in 1..Len(selResults) : selResults[i] = selTask[1]
            /\ \A i \in 1..Len(selResults) :
                    selResults[i].iteration = selOut.id => selResults[i] = selTask[1]

\* a min scan that elects the second of three tasks
C20_Witness ==
    /\ selPc = "done"
    /\ selCriteria = Str(<<"m", "i", "n", ".", "a">>)
    /\ Len(selResults) = 3
    /\ selOut = [item |-> 1, id |-> 2]
    /\ selTask # <<>> /\ selTask[1].iteration = 2
    /\ selTask[1].outputs[<<"a">>] = Num(-1)

-----------------------------------------------------------------------------
(* Claims about one call of the build gate (GateSpec) *)

\* the runtime, the builder's calls and the builder's answer on entry to the
\* last call of _build_image
GateEntered == gateEntry # <<>>

EntryRt == gateEntry[1].rt

EntryBuilder == gateEntry[1].builder

EntryStatus == gateEntry[1].status

\* no build commands, no source, mode 'pass'
BuildNotRequired(rt) ==
    rt.commands = <<>> /\ rt.source = "" /\ rt.spec_mode = "pass"

\* the descriptor is not built and holds the handle of a dispatched build
PollPending(rt) == ~rt.is_built /\ rt.build_pod # 0

AdoptedImage(rt) == IF rt.spec_image # "" THEN rt.spec_image ELSE rt.base_image

\* C11 (as stated): a call of _build_image with no build commands, no source,
\* mode 'pass' and a base image set marks the descriptor built, returns True,
\* makes the runtime image the explicit image if set and otherwise the base
\* image, and makes no call to the builder, neither poll nor dispatch.
C11_NotRequiredDirect ==
    (GateEntered /\ BuildNotRequired(EntryRt) /\ EntryRt.base_image # "") =>
        /\ runtime.is_built
        /\ gateRet = "True"
        /\ runtime.spec_image = AdoptedImage(EntryRt)
        /\ builder = EntryBuilder

\* C11 (amended): the same, for a call made while no poll is pending, that is
\* when the descriptor is already built or holds no build handle.
C11_NotRequiredNoPoll ==
    (GateEntered /\ BuildNotRequired(EntryRt) /\ EntryRt.base_image # ""
        /\ ~PollPending(EntryRt)) =>
        /\ runtime.is_built
        /\ gateRet = "True"
        /\ runtime.spec_image = AdoptedImage(EntryRt)
        /\ builder = EntryBuilder

\* a call that found an explicit image next to a base image and kept it
C11_Witness ==
    /\ GateEntered /\ BuildNotRequired(EntryRt) /\ ~PollPending(EntryRt)
    /\ EntryRt.base_image = "base" /\ EntryRt.spec_image = "img"
    /\ ~EntryRt.is_built
    /\ runtime.is_built /\ runtime.spec_image = "img" /\ gateRet = "True"

\* C18: a call of _build_image on a descriptor that is not built and has a
\* build handle makes exactly one status check and no dispatch; on a status
\* other than succeeded, failed or error it returns False without raising and
\* leaves the handle, the built flag and the runtime image as they were; on
\* succeeded it clears the handle and marks the descriptor built.
C18_PendingPoll ==
    (GateEntered /\ PollPending(EntryRt)) =>
        /\ builder.polls = EntryBuilder.polls + 1
        /\ builder.dispatches = EntryBuilder.dispatches
        /\ EntryStatus \notin {"succeeded", "failed", "error"} =>
            /\ gateRet = "False"
            /\ gateErr = "None"
            /\ runtime = EntryRt
        /\ EntryStatus = "succeeded" =>
            /\ runtime.build_pod = 0
            /\ runtime.is_built

\* a poll answered 'running' on a descriptor that would otherwise go on to
\* dispatch a build
C18_Witness ==
    /\ GateEntered /\ PollPending(EntryRt)
    /\ EntryStatus = "running"
    /\ EntryRt.commands # <<>> /\ EntryRt.build_image # "" /\ EntryRt.spec_image = ""
    /\ gateRet = "False"
    /\ runtime.build_pod = 1 /\ ~runtime.is_built

\* C19 (as stated): a call of _build_image with no build commands, no source,
\* mode 'pass' and neither an image nor a base image raises the error at once:
\* no call to the builder, no image set, the descriptor not marked built.
C19_MissingImage ==
    (GateEntered /\ BuildNotRequired(EntryRt)
        /\ EntryRt.spec_image = "" /\ EntryRt.base_image = "") =>
        /\ gateRet = "RunError"
        /\ gateErr = image_error
        /\ builder = EntryBuilder
        /\ runtime = EntryRt

\* C19 (amended): the same, for a call made while no poll is pending.
C19_MissingImageNoPoll ==
    (GateEntered /\ BuildNotRequired(EntryRt)
        /\ EntryRt.spec_image = "" /\ EntryRt.base_image = ""
        /\ ~PollPending(EntryRt)) =>
        /\ gateRet = "RunError"
        /\ gateErr = image_error
        /\ builder = EntryBuilder
        /\ runtime = EntryRt

\* build_image on a pass-mode runtime with no base image: the image it clears
\* is missing when _build_image runs
C19_Witness ==
    /\ GateEntered /\ BuildNotRequired(EntryRt) /\ ~PollPending(EntryRt)
    /\ EntryRt.spec_image = "" /\ EntryRt.base_image = ""
    /\ EntryRt.build_image = "target"
    /\ gateRet = "RunError" /\ gateErr = image_error
    /\ ~runtime.is_built /\ runtime.spec_image = ""

-----------------------------------------------------------------------------
(* Claims about a run and its collaborators (Spec, FaultSpec) *)

\* the message is that of a failed build and names the build handle pod
CarriesHandle(msg, pod) ==
    \E st \in {"failed", "error"} :
        msg = "build " \o st \o ", watch the build pod logs: " \o ToString(pod)

\* the j-th task's _run ended in the build gate's error
GateFailedAt(j) == hist[j].kind = "raise" /\ hist[j].error # "rerr"

\* C12: when the build gate polls a handle and the builder reports 'failed' or
\* 'error', the gate raises an error that names the handle, the descriptor is
\* not marked built and keeps the handle, and the run that asked ends in state
\* 'error' with that error; in a sweep only that task does, and every other
\* generated task is still executed.
C12_BuildFailure ==
    /\ gateRet = "RunError" =>
        /\ EntryStatus \in {"failed", "error"}
        /\ CarriesHandle(gateErr, EntryRt.build_pod)
        /\ ~runtime.is_built
        /\ runtime.build_pod # 0 /\ runtime.build_pod = EntryRt.build_pod
    /\ kind = "batch" =>
        /\ \A j \in 1..Len(hist) :
            (j <= Len(runResults) /\ j <= nTasks) =>
                IF GateFailedAt(j)
                THEN /\ runResults[j].state = "error"
                     /\ CarriesHandle(runResults[j].error, runtime.build_pod)
                ELSE hist[j].kind # "raise" => runResults[j].state = ExpectedState(j)
        /\ pc \in {"to_iter", "show", "finish", "done"} =>
            Len(hist) = nTasks /\ Len(runResults) >= nTasks
    /\ (kind = "single" /\ pc \in {"finish", "done"} /\ GateFailedAt(1)) =>
        /\ result # <<>>
        /\ result[1].state = "error"
        /\ CarriesHandle(result[1].error, runtime.build_pod)
        /\ runHasDb => runDb[<<Uid, Project>>].state = "error"

\* a sweep whose first task met the failed build and whose second completed
C12_Witness ==
    /\ kind = "batch" /\ pc = "to_iter" /\ nTasks >= 2
    /\ GateFailedAt(1)
    /\ hist[2].kind = "resp" /\ hist[2].state = "completed"
    /\ runResults[1].state = "error"
    /\ runResults[1].error = "build failed, watch the build pod logs: 1"
    /\ runResults[2].state = "completed"
    /\ ~runtime.is_built /\ runtime.build_pod = 1 /\ builder.polls = 1

\* the store key of the task of iteration j of the run
ExpectedKey(j) ==
    <<IF j = 0 THEN Uid ELSE Uid \o <<"-", ToString(j)>>, Project>>

\* the tasks of the run that have been stored so far
StoredTasks ==
    IF kind = "single"
    THEN IF pc \in {"start", "store"} THEN {} ELSE {0}
    ELSE {j \in 1..nTasks : j < taskNo \/ (j = taskNo /\ pc # "store")}

\* C13: every store, update and read of the run uses the key (uid, project) for
\* iteration 0 and ('uid-iteration', project) for an iteration >= 1; the
\* terminal update of a task lands on the key it was stored under as
\* submitted, and the tasks of one sweep have pairwise different keys.
C13_CompositeKey ==
    runHasDb =>
        /\ \A i \in 1..Len(dbLog) : \E j \in StoredTasks : dbLog[i].key = ExpectedKey(j)
        /\ DOMAIN runDb = {ExpectedKey(j) : j \in StoredTasks}
        /\ Cardinality(DOMAIN runDb) = Cardinality(StoredTasks)
        /\ \A j \in StoredTasks : runDb[ExpectedKey(j)].iteration = j
        /\ kind = "batch" =>
            \A j \in 1..Len(runResults) :
                j <= nTasks =>
                    /\ runDb[ExpectedKey(j)].state = runResults[j].state
                    /\ \E i \in 1..Len(dbLog) :
                        /\ dbLog[i].op = "update"
                        /\ dbLog[i].key = ExpectedKey(j)
                        /\ dbLog[i].state = runResults[j].state
        /\ (kind = "single" /\ pc \in {"finish", "done"}) =>
            runDb[ExpectedKey(0)].state = result[1].state

\* a sweep with a store after its second task: one failed, one completed
C13_Witness ==
    /\ runHasDb /\ kind = "batch" /\ Len(runResults) = 2
    /\ pc \in {"store", "to_iter"}
    /\ DOMAIN runDb = {<<<<"u", "-", "1">>, "p">>, <<<<"u", "-", "2">>, "p">>}
    /\ runDb[<<<<"u", "-", "1">>, "p">>].state = "error"
    /\ runDb[<<<<"u", "-", "2">>, "p">>].state = "completed"

\* C14: a store call that fails on the submitted store or on the terminal
\* update of a task is not fatal: no exception of the store leaves run(), every
\* generated task is still executed and has a terminal state in the results.
C14_StoreFailureNotFatal ==
    /\ outcome # "store_error"
    /\ \A j \in 1..Len(hist) : hist[j].kind # "store_raise"
    /\ (kind = "batch" /\ pc = "to_iter") =>
        /\ Len(hist) = nTasks
        /\ \A j \in 1..Len(runResults) : runResults[j].state \in {"completed", "error"}

\* C15: a failure of the report write-out does not fail the run: run() ends as
\* it does without the report, returning its result.
C15_ReportingNeverFails ==
    /\ outcome # "report_error"
    /\ pc = "done" => outcome \in {"returned", "raised", "store_error"}

\* the store updates the step adds to the log
NewUpdates ==
    {i \in (Len(dbLog) + 1)..Len(dbLog') : dbLog'[i].op = "update"}

\* C16: once a task's entry in the results is 'completed' or 'error', no later
\* step of the run changes the entry or sends the store a further status
\* update for the task.
C16_TerminalImmutable ==
    [][\A j \in 1..Len(runResults) :
            runResults[j].state \in {"completed", "error"} =>
                /\ j <= Len(runResults')
                /\ runResults'[j] = runResults[j]
                /\ \A i \in NewUpdates :
                        dbLog'[i].key # ExpectedKey(runResults[j].iteration)]_vars

\* where the first call op of the store for iteration j stands in the log, 0
\* when there is none
LogPos(op, j) ==
    LET at == {i \in 1..Len(dbLog) : dbLog[i].op = op /\ dbLog[i].key = ExpectedKey(j)}
    IN  IF at = {} THEN 0 ELSE CHOOSE i \in at : \A k \in at : i <= k

\* C17: in a sweep over t1..tN the submitted store of ti comes before the
\* execution of ti, that before the terminal update of ti, that before the
\* submitted store of t(i+1): at most one task is in flight, a task is executed
\* only when every earlier task has its entry in the results, and the i-th
\* entry of the results is the outcome of ti.
C17_Sequential ==
    (kind = "batch" /\ pc # "start") =>
        /\ pc \in {"store", "exec", "post", "to_iter"} =>
            Len(runResults) <= Len(hist) /\ Len(hist) <= Len(runResults) + 1
        /\ pc \in {"store", "exec"} => Len(hist) = taskNo - 1 /\ Len(runResults) = taskNo - 1
        /\ pc = "post" => Len(hist) = taskNo /\ Len(runResults) = taskNo - 1
        /\ pc = "to_iter" => Len(hist) = nTasks /\ Len(runResults) = nTasks
        /\ \A j \in 1..Len(runResults) :
            j <= nTasks =>
                /\ runResults[j].iteration = j
                /\ runResults[j].state =
                        IF hist[j].kind = "raise" THEN "error" ELSE ExpectedState(j)
        /\ runHasDb =>
            \A j \in 1..nTasks :
                /\ j <= Len(hist) => LogPos("store", j) # 0
                /\ j <= Len(runResults) =>
                        /\ LogPos("update", j) # 0
                        /\ LogPos("store", j) < LogPos("update", j)
                /\ LogPos("update", j) # 0 => j <= Len(hist)
                /\ (j > 1 /\ LogPos("store", j) # 0) =>
                        /\ j - 1 <= Len(runResults)
                        /\ LogPos("update", j - 1) # 0
                        /\ LogPos("update", j - 1) < LogPos("store", j)

\* the third task of a sweep with a store is being executed
C17_Witness ==
    /\ kind = "batch" /\ runHasDb /\ nTasks = 3
    /\ pc = "post" /\ taskNo = 3
    /\ Len(hist) = 3 /\ Len(runResults) = 2
    /\ LogPos("store", 3) > LogPos("update", 2)
    /\ LogPos("store", 2) > LogPos("update", 1)
    /\ LogPos("update", 3) = 0

\* C21: whenever a call of _build_image returns without raising, what it
\* returns is truthy exactly when the descriptor's _is_built is true after the
\* call, on the poll path, the build-not-required path and the dispatch path.
C21_ReportAgreesWithBuilt ==
    (GateEntered /\ gateRet \in {"True", "False", "None"}) =>
        ((gateRet = "True") <=> runtime.is_built)

=============================================================================
